---- MODULE Spec2Model ----
(***************************************************************************)
(* amqpy transport layer (amqpy/transport.py): AbstractTransport with its  *)
(* TCPTransport / SSLTransport variants.  One Transport object, a set of   *)
(* threads calling read_frame / write_frame / close on it, the incoming    *)
(* byte stream and the outgoing wire.  Every socket call (recv_into, send, *)
(* shutdown, close) is one atomic step of the calling thread.              *)
(***************************************************************************)
EXTENDS Integers, Sequences, FiniteSets, TLC

(* ------------------------------ bounds -------------------------------- *)
\* errors the socket layer raises in one run
MaxErrs == 1
\* buf_size of the scratch buffer
BufSize == 8
\* most bytes one underlying send / SSL write call accepts
MaxChunk == 3

(* -------------------------- program constants ------------------------- *)
HeaderLen == 7
FrameEnd == 206

\* the threads sharing the Transport; each makes one call on it
Threads == {"t1", "t2"}
NoThread == "nobody"

Min(a, b) == IF a < b THEN a ELSE b

\* _UNAVAIL = errno.EAGAIN, errno.EINTR, errno.ENOENT
UNAVAIL == {"EAGAIN", "EINTR", "ENOENT"}

\* the _errnos each variant's read() hands to _read
read_errnos(v) ==
  IF v = "ssl" THEN {"ENOENT", "EAGAIN", "EINTR"} ELSE {"EAGAIN", "EINTR"}

(* ------------------------------ exceptions ---------------------------- *)
\* cls: the Python class; errno: exc.errno ("None" when the exception has none)
Exc(c, e) == [cls |-> c, errno |-> e]
NoExc == Exc("none", "None")
AttributeError == Exc("AttributeError", "None")
ValueError == Exc("ValueError", "None")
SocketClosed == Exc("IOError", "None")
SocketTimeout == Exc("timeout", "None")
SSLTimedOut == Exc("SSLError", "timed out")
UnexpectedFrame == Exc("UnexpectedFrame", "None")
\* outcomes of a call that are not exceptions
RetFrame == Exc("Frame", "None")
RetNone == Exc("returned", "None")

\* the classes caught by "except (OSError, IOError, socket.error)" and
\* "except socket.error"
is_socket_error(exc) == exc.cls \in {"OSError", "IOError", "timeout", "SSLError"}

\* utils.get_errno
get_errno(exc) == exc.errno

\* what the socket layer may raise from a blocking call on an open socket
SocketErrors(v) ==
  {Exc("OSError", e) : e \in {"EAGAIN", "EINTR", "ENOENT", "ECONNRESET"}}
    \cup {SocketTimeout}
    \cup (IF v = "ssl" THEN {SSLTimedOut} ELSE {})

(* ------------------------------- frames ------------------------------- *)
\* spec.Frame wire image: type, channel (2 bytes), payload length (4 bytes,
\* big endian), payload, terminator
MkFrame(type, channel, payload, term) ==
  <<type, channel \div 256, channel % 256,
    (Len(payload) \div 16777216) % 256, (Len(payload) \div 65536) % 256,
    (Len(payload) \div 256) % 256, Len(payload) % 256>>
    \o payload \o <<term>>

\* spec.Frame.payload_size: the unsigned 32-bit big-endian integer in header
\* bytes 4..7.  TLC's integers end at 2^31 - 1: a size of 2^31 or more is
\* given as 2^31 - 1, which like it is beyond every buffer of the model.
payload_size(data) ==
  IF data[4] >= 128 THEN 2147483647
  ELSE data[4] * 16777216 + data[5] * 65536 + data[6] * 256 + data[7]

F1 == MkFrame(1, 0, <<>>, FrameEnd)
F2 == MkFrame(3, 1, <<9>>, FrameEnd)
FBad == MkFrame(2, 1, <<7>>, 0)

\* AMQP_PROTOCOL_HEADER = b'AMQP\x00\x00\x09\x01'
AMQP_PROTOCOL_HEADER == <<65, 77, 81, 80, 0, 0, 9, 1>>

\* the frame images the callers hand to write_frame
WriteImages == {F1, F2, FBad}
\* what the peer sends in one run
Streams == {F1 \o F2, FBad \o F1, SubSeq(F2, 1, Len(F2) - 1)}
\* what the peer sends to a caller of read(n, initial)
RawStream == [i \in 1..(2 * BufSize) |-> i]

VARIABLES
  variant,      \* "tcp" | "ssl"
  sock,         \* self.sock: "None" | "socket"
  sockState,    \* the OS socket: "open" | "shut" | "closed"
  connected,    \* self.connected
  frame_lock,   \* self._frame_lock: the thread holding it, or NoThread
  rbuf,         \* self._rbuf
  inStream,     \* the bytes the peer sends
  rpos,         \* how many of them the socket has handed out
  peerClosed,   \* the peer has closed its end
  wire,         \* the bytes the socket accepted for sending
  pc,           \* per thread: where it is
  frame,        \* per thread: frame.data being accumulated (read_frame)
  n,            \* per thread: _read's n
  to_read,      \* per thread: _read's to_read
  initial,      \* per thread: _read's initial
  s,            \* per thread: what is left to write (write)
  cur,          \* per thread: the number of its current (or last) call, 0 if none
  hist,         \* history: one record per call started, in order of start
  wtag,         \* history: for each byte of wire, the call that sent it (0: __init__)
  errs,         \* errors raised by the socket layer so far
  cpc,          \* __init__: where the constructor is
  addrs,        \* __init__: what getaddrinfo returned, as each candidate's fate
  ai,           \* __init__: the candidate the for loop is at
  last_err,     \* __init__: last_err
  raised,       \* __init__: the exception the constructor raised, if any
  nopen         \* history: OS sockets open (created and not closed)

\* the constructor's variables
cvars == <<cpc, addrs, ai, last_err, raised>>
\* the threads' variables
tvars == <<pc, frame, n, to_read, initial, s, cur>>

vars == <<variant, sock, sockState, connected, frame_lock, rbuf, inStream, rpos,
          peerClosed, wire, wtag, errs, hist, nopen, cvars, tvars>>


ncalls == Len(hist)
\* how the last call of thread t ended (NoExc while it runs or before any call)
result(t) == IF cur[t] = 0 THEN NoExc ELSE hist[cur[t]].res

\* a call as the history records it when it starts: the thread, the
\* operation, the image to write (write_frame) or the n to read (read), rpos
\* and connected and self.sock at that moment; and, filled in as it runs, what
\* it returned (data), how it ended (res), whether it called recv_into or the
\* socket's write/send (io), whether such a call reported zero bytes (zero),
\* the exception that ended it as it was first raised, before the except
\* clause of read_frame / write_frame saw it (raw), and how many errors _read
\* swallowed (retries)
Call(t, op, img, k) ==
  [thr |-> t, op |-> op, img |-> img, n |-> k, start |-> rpos, data |-> <<>>,
   res |-> NoExc, io |-> FALSE, zero |-> FALSE, conn0 |-> connected,
   sock0 |-> sock, raw |-> NoExc, retries |-> 0]

TypeOK ==
  /\ variant \in {"tcp", "ssl"}
  /\ sock \in {"None", "socket"}
  /\ sockState \in {"none", "open", "shut", "closed"}
  /\ connected \in BOOLEAN
  /\ frame_lock \in Threads \cup {NoThread}
  /\ Len(rbuf) = BufSize
  /\ rpos \in 0..Len(inStream)
  /\ Len(wtag) = Len(wire)
  /\ \A t \in Threads : cur[t] \in 0..Len(hist) /\ to_read[t] \in 0..n[t]

\* the state of the threads before any call
ThreadsInit ==
  /\ pc = [t \in Threads |-> "idle"]
  /\ frame = [t \in Threads |-> <<>>]
  /\ n = [t \in Threads |-> 0]
  /\ to_read = [t \in Threads |-> 0]
  /\ initial = [t \in Threads |-> FALSE]
  /\ s = [t \in Threads |-> <<>>]
  /\ cur = [t \in Threads |-> 0]
  /\ hist = <<>>

\* the Transport after a successful construction (connected = True, line 73)
Connected ==
  /\ variant \in {"tcp", "ssl"}
  /\ sock = "socket"
  /\ sockState = "open"
  /\ connected = TRUE
  /\ frame_lock = NoThread
  /\ rbuf = [i \in 1..BufSize |-> 0]
  /\ rpos = 0
  /\ peerClosed = FALSE
  /\ wire = AMQP_PROTOCOL_HEADER
  /\ wtag = [i \in 1..Len(AMQP_PROTOCOL_HEADER) |-> 0]
  /\ errs = 0
  /\ nopen = 1
  /\ cpc = "done"
  /\ addrs = <<"ok">>
  /\ ai = 1
  /\ last_err = "None"
  /\ raised = NoExc

Init ==
  /\ Connected
  /\ ThreadsInit
  /\ inStream \in Streams

(* ------------------------- ends of a call ----------------------------- *)
\* thread t's locals once its call is over
Idle(t) ==
  /\ pc' = [pc EXCEPT ![t] = "idle"]
  /\ frame' = [frame EXCEPT ![t] = <<>>]
  /\ n' = [n EXCEPT ![t] = 0]
  /\ to_read' = [to_read EXCEPT ![t] = 0]
  /\ initial' = [initial EXCEPT ![t] = FALSE]
  /\ s' = [s EXCEPT ![t] = <<>>]
  /\ UNCHANGED cur

\* synchronized('_frame_lock'): the lock is taken on entry ...
lock_free == frame_lock = NoThread
\* ... and released when the call returns or raises
release(t) == IF frame_lock = t THEN NoThread ELSE frame_lock

\* the history entry of t's call, closed with outcome res; io says whether the
\* step that ends the call made a socket call
Closed(t, res, data, io) ==
  [hist EXCEPT ![cur[t]].res = res, ![cur[t]].data = data,
               ![cur[t]].io = @ \/ io]

(* ------------------------------ _read --------------------------------- *)
\* (mutant) the view is never advanced: every recv_into writes at the start
mview_offset_start(t) == 0

\* mview = mview[bytes_read:]: where the next recv_into writes in _rbuf
mview_offset(t) == n[t] - to_read[t]
mview_len(t) == IF mview_offset(t) < BufSize THEN BufSize - mview_offset(t) ELSE 0
avail == Len(inStream) - rpos

Raise(e, inj) == [kind |-> "raise", exc |-> e, len |-> 0, injected |-> inj]
Data(k) == [kind |-> "data", exc |-> NoExc, len |-> k, injected |-> FALSE]

\* self.sock.recv_into(mview, to_read): what one call can do
recv_into(t) ==
  IF sock = "None" THEN {Raise(AttributeError, FALSE)}
  ELSE IF sockState = "closed"
    THEN {Raise(IF variant = "ssl" THEN ValueError ELSE Exc("OSError", "EBADF"), FALSE)}
  ELSE IF variant = "tcp" /\ to_read[t] > mview_len(t)
    THEN {Raise(ValueError, FALSE)}   \* buffer too small for requested bytes
  ELSE LET want == Min(to_read[t], mview_len(t)) IN
    {Data(k) : k \in 1..Min(want, avail)}
      \cup (IF want = 0 \/ (avail = 0 /\ (peerClosed \/ sockState = "shut"))
            THEN {Data(0)} ELSE {})
      \cup (IF errs < MaxErrs THEN {Raise(e, TRUE) : e \in SocketErrors(variant)}
            ELSE {})

\* _rbuf after recv_into stored k bytes at the view's start
rbuf_after(t, k) ==
  [i \in 1..BufSize |->
     IF mview_offset(t) < i /\ i <= mview_offset(t) + k
     THEN inStream[rpos + i - mview_offset(t)] ELSE rbuf[i]]

\* (mutant) "if to_read": one recv_into, however many bytes it brought
while_to_read_once(left) == FALSE

\* "while to_read": the loop goes on while bytes are missing
while_to_read(left) == left > 0

\* (mutant) "if exc.errno in _errnos: continue", whatever initial is
read_retries_always(t, exc) ==
  is_socket_error(exc) /\ exc.errno \in read_errnos(variant)

\* "except socket.error as exc: if not initial and exc.errno in _errnos: continue"
read_retries(t, exc) ==
  is_socket_error(exc) /\ ~initial[t] /\ exc.errno \in read_errnos(variant)

\* memoryview(self._rbuf)[:n]
read_view(buf, k) == SubSeq(buf, 1, Min(k, BufSize))

(* ---------------------------- read_frame ------------------------------ *)
\* (mutant) the except clause re-raises and leaves connected alone
read_frame_except_keep(exc) ==
  IF is_socket_error(exc) /\ exc.cls = "SSLError" /\ exc.errno = "timed out"
    THEN [exc |-> SocketTimeout, connected |-> connected]
  ELSE [exc |-> exc, connected |-> connected]

\* (mutant) the except clause without its two timeout cases
read_frame_except_no_timeout(exc) ==
  IF ~is_socket_error(exc) THEN [exc |-> exc, connected |-> connected]
  ELSE IF get_errno(exc) \notin UNAVAIL THEN [exc |-> exc, connected |-> FALSE]
  ELSE [exc |-> exc, connected |-> connected]

\* the except clause of read_frame: what is raised, and connected afterwards
read_frame_except(exc) ==
  IF ~is_socket_error(exc) THEN [exc |-> exc, connected |-> connected]
  ELSE IF exc.cls = "SSLError" /\ exc.errno = "timed out"
    THEN [exc |-> SocketTimeout, connected |-> connected]
  ELSE IF get_errno(exc) \notin UNAVAIL /\ exc.cls # "timeout"
    THEN [exc |-> exc, connected |-> FALSE]
  ELSE [exc |-> exc, connected |-> connected]

\* (mutant) the terminator is not looked at
terminator_any(b) == TRUE

\* "if i_last_byte == FrameType.END"
terminator_ok(b) == b = FrameEnd

\* read_frame raises exc out of one of its three reads
read_frame_raise(t, exc, io) ==
  /\ Idle(t)
  /\ hist' = [Closed(t, read_frame_except(exc).exc, <<>>, io)
                EXCEPT ![cur[t]].zero = (exc = SocketClosed),
                       ![cur[t]].raw = exc]
  /\ connected' = read_frame_except(exc).connected
  /\ frame_lock' = release(t)

\* the next read of read_frame starts: self.read(k, init)
read_begin(t, where, data, k, init) ==
  /\ pc' = [pc EXCEPT ![t] = where]
  /\ frame' = [frame EXCEPT ![t] = data]
  /\ n' = [n EXCEPT ![t] = k]
  /\ to_read' = [to_read EXCEPT ![t] = k]
  /\ initial' = [initial EXCEPT ![t] = init]
  /\ UNCHANGED s

\* a read of read_frame returned view: frame.data.extend(view) and what follows
read_frame_next(t, view) ==
  LET data == frame[t] \o view IN
  CASE pc[t] = "rd_hdr" ->
         /\ IF payload_size(data) = 0
            THEN read_begin(t, "rd_term", data, 1, FALSE)   \* read(0) returns at once
            ELSE read_begin(t, "rd_pay", data, payload_size(data), FALSE)
         /\ hist' = [hist EXCEPT ![cur[t]].io = TRUE]
         /\ UNCHANGED <<cur, connected, frame_lock>>
    [] pc[t] = "rd_pay" ->
         /\ read_begin(t, "rd_term", data, 1, FALSE)
         /\ hist' = [hist EXCEPT ![cur[t]].io = TRUE]
         /\ UNCHANGED <<cur, connected, frame_lock>>
    [] pc[t] = "rd_term" ->
         /\ Idle(t)
         /\ hist' = Closed(t, IF terminator_ok(view[1]) THEN RetFrame
                              ELSE UnexpectedFrame, data, TRUE)
         /\ frame_lock' = release(t)
         /\ UNCHANGED connected
    [] pc[t] = "rd_raw" ->
         /\ Idle(t)
         /\ hist' = Closed(t, RetNone, view, TRUE)
         /\ UNCHANGED <<connected, frame_lock>>

\* (mutant) read_frame without its @synchronized
read_frame_enter_unlocked(t) ==
  /\ pc[t] = "idle"
  /\ cur[t] = 0
  /\ read_begin(t, "rd_hdr", <<>>, HeaderLen, TRUE)
  /\ hist' = Append(hist, Call(t, "read_frame", <<>>, 0))
  /\ cur' = [cur EXCEPT ![t] = Len(hist) + 1]
  /\ UNCHANGED <<variant, sock, sockState, connected, rbuf, inStream, rpos,
                 peerClosed, wire, wtag, errs, nopen, cvars, frame_lock>>

\* read_frame is entered: the lock is taken, frame = Frame(), self.read(7, True)
read_frame_enter(t) ==
  /\ pc[t] = "idle"
  /\ cur[t] = 0
  /\ lock_free
  /\ frame_lock' = t
  /\ read_begin(t, "rd_hdr", <<>>, HeaderLen, TRUE)
  /\ hist' = Append(hist, Call(t, "read_frame", <<>>, 0))
  /\ cur' = [cur EXCEPT ![t] = Len(hist) + 1]
  /\ UNCHANGED <<variant, sock, sockState, connected, rbuf, inStream, rpos,
                 peerClosed, wire, wtag, errs, nopen, cvars>>

\* one pass of _read's loop: one recv_into call
recv(t) ==
  /\ pc[t] \in {"rd_hdr", "rd_pay", "rd_term", "rd_raw"}
  /\ \E o \in recv_into(t) :
       /\ errs' = IF o.injected THEN errs + 1 ELSE errs
       /\ IF o.kind = "raise"
          THEN IF read_retries(t, o.exc)
               THEN /\ hist' = [hist EXCEPT ![cur[t]].io = TRUE,
                                            ![cur[t]].retries = @ + 1]
                    /\ UNCHANGED <<tvars, connected, frame_lock, rbuf, rpos>>
               ELSE /\ IF pc[t] = "rd_raw"
                       THEN /\ Idle(t)
                            /\ hist' = [Closed(t, o.exc, <<>>, sock # "None")
                                          EXCEPT ![cur[t]].raw = o.exc]
                            /\ UNCHANGED <<connected, frame_lock>>
                       ELSE read_frame_raise(t, o.exc, sock # "None")
                    /\ UNCHANGED <<rbuf, rpos>>
          ELSE /\ rbuf' = rbuf_after(t, o.len)
               /\ rpos' = rpos + o.len
               /\ IF o.len = 0     \* "if not bytes_read: raise IOError"
                  THEN IF pc[t] = "rd_raw"
                       THEN /\ Idle(t)
                            /\ hist' = [Closed(t, SocketClosed, <<>>, TRUE)
                                          EXCEPT ![cur[t]].zero = TRUE,
                                                 ![cur[t]].raw = SocketClosed]
                            /\ UNCHANGED <<connected, frame_lock>>
                       ELSE read_frame_raise(t, SocketClosed, TRUE)
                  ELSE IF while_to_read(to_read[t] - o.len)
                       THEN /\ to_read' = [to_read EXCEPT ![t] = @ - o.len]
                            /\ hist' = [hist EXCEPT ![cur[t]].io = TRUE]
                            /\ UNCHANGED <<pc, frame, n, initial, s, cur,
                                           connected, frame_lock>>
                       ELSE read_frame_next(t, read_view(rbuf_after(t, o.len), n[t]))
  /\ UNCHANGED <<variant, sock, sockState, inStream, peerClosed, wire, wtag,
                 nopen, cvars>>

\* the peer closes its end of the connection
peer_close ==
  /\ ~peerClosed
  /\ peerClosed' = TRUE
  /\ UNCHANGED <<variant, sock, sockState, connected, frame_lock, rbuf, inStream,
                 rpos, wire, wtag, errs, tvars, hist, nopen, cvars>>

(* ------------------------------- write -------------------------------- *)
\* (mutant) the except clauses re-raise and leave connected alone
write_frame_except_keep(exc) == [exc |-> exc, connected |-> connected]

\* the except clauses of write_frame: what is raised, and connected afterwards
write_frame_except(exc) ==
  IF exc.cls = "timeout" THEN [exc |-> exc, connected |-> connected]
  ELSE IF ~is_socket_error(exc) THEN [exc |-> exc, connected |-> connected]
  ELSE IF get_errno(exc) \notin UNAVAIL THEN [exc |-> exc, connected |-> FALSE]
  ELSE [exc |-> exc, connected |-> connected]

write_frame_raise(t, exc, io) ==
  /\ Idle(t)
  /\ hist' = [Closed(t, write_frame_except(exc).exc, <<>>, io)
                EXCEPT ![cur[t]].zero = @ \/ (io /\ exc = SocketClosed),
                       ![cur[t]].raw = exc]
  /\ connected' = write_frame_except(exc).connected
  /\ frame_lock' = release(t)

\* write_frame returns
write_frame_return(t, io) ==
  /\ Idle(t)
  /\ hist' = Closed(t, RetNone, <<>>, io)
  /\ frame_lock' = release(t)
  /\ UNCHANGED connected

\* what the attribute lookup self.sock.write / self.sock.sendall raises when
\* self.sock is None: SSLTransport.write turns the AttributeError into IOError
write_lookup_error == IF variant = "ssl" THEN SocketClosed ELSE AttributeError

\* write_frame is entered: the lock is taken, self.write(frame.data) starts
write_frame_begin(t, img) ==
  /\ frame_lock' = t
  /\ cur' = [cur EXCEPT ![t] = Len(hist) + 1]
  /\ pc' = [pc EXCEPT ![t] = "wr"]
  /\ s' = [s EXCEPT ![t] = img]
  /\ hist' = Append(hist, Call(t, "write_frame", img, Len(img)))
  /\ UNCHANGED <<frame, n, to_read, initial>>

\* (mutant) write_frame without its @synchronized
write_frame_enter_unlocked(t) ==
  /\ pc[t] = "idle"
  /\ cur[t] = 0
  /\ \E img \in WriteImages :
       /\ cur' = [cur EXCEPT ![t] = Len(hist) + 1]
       /\ pc' = [pc EXCEPT ![t] = "wr"]
       /\ s' = [s EXCEPT ![t] = img]
       /\ hist' = Append(hist, Call(t, "write_frame", img, Len(img)))
  /\ UNCHANGED <<variant, sock, sockState, connected, rbuf, inStream, rpos,
                 peerClosed, wire, wtag, errs, nopen, cvars, frame_lock,
                 frame, n, to_read, initial>>

\* write_frame is entered (@synchronized('_frame_lock'), line 188)
write_frame_enter(t) ==
  /\ pc[t] = "idle"
  /\ cur[t] = 0
  /\ lock_free
  /\ \E img \in WriteImages : write_frame_begin(t, img)
  /\ UNCHANGED <<variant, sock, sockState, connected, rbuf, inStream, rpos,
                 peerClosed, wire, wtag, errs, nopen, cvars>>

\* one underlying call of the write loop (sock.write of SSLTransport.write, one
\* send of sendall): what it can do with s left to write
send_outcomes(t) ==
  IF sockState = "closed"
    THEN {Raise(IF variant = "ssl" THEN ValueError ELSE Exc("OSError", "EBADF"), FALSE)}
  ELSE IF sockState = "shut" THEN {Raise(Exc("OSError", "EPIPE"), FALSE)}
  ELSE {Data(k) : k \in 1..Min(MaxChunk, Len(s[t]))}
      \cup (IF peerClosed
            THEN (IF variant = "ssl" THEN {Data(0)}
                  ELSE {Raise(Exc("OSError", "EPIPE"), FALSE)})
            ELSE {})
      \cup (IF errs < MaxErrs THEN {Raise(e, TRUE) : e \in SocketErrors(variant)}
            ELSE {})

\* (mutant) "s = s[n + 1:]"
write_rest_skip(rest, k) == SubSeq(rest, k + 2, Len(rest))

\* "s = s[n:]"
write_rest(rest, k) == SubSeq(rest, k + 1, Len(rest))

\* "while s"
while_s(rest) == Len(rest) > 0

\* "if not n: raise IOError('Socket closed')"
write_closed(k) == k = 0

\* the first step of self.write: the lookup of the socket's method, and either
\* nothing to write or the first underlying call; later steps: one more call
send(t) ==
  /\ pc[t] = "wr"
  /\ IF sock = "None" /\ ~hist[cur[t]].io /\ s[t] = hist[cur[t]].img
     THEN /\ write_frame_raise(t, write_lookup_error, FALSE)
          /\ UNCHANGED <<wire, wtag, errs>>
     ELSE IF ~while_s(s[t])
     THEN /\ write_frame_return(t, FALSE)
          /\ UNCHANGED <<wire, wtag, errs>>
     ELSE \E o \in send_outcomes(t) :
          /\ errs' = IF o.injected THEN errs + 1 ELSE errs
          /\ IF o.kind = "raise"
             THEN /\ write_frame_raise(t, o.exc, TRUE)
                  /\ UNCHANGED <<wire, wtag>>
             ELSE IF write_closed(o.len)
             THEN /\ write_frame_raise(t, SocketClosed, TRUE)
                  /\ UNCHANGED <<wire, wtag>>
             ELSE /\ wire' = wire \o SubSeq(s[t], 1, o.len)
                  /\ wtag' = wtag \o [i \in 1..o.len |-> cur[t]]
                  /\ IF while_s(write_rest(s[t], o.len))
                     THEN /\ s' = [s EXCEPT ![t] = write_rest(s[t], o.len)]
                          /\ hist' = [hist EXCEPT ![cur[t]].io = TRUE,
                                                  ![cur[t]].zero = @ \/ o.len = 0]
                          /\ UNCHANGED <<pc, frame, n, to_read, initial, cur,
                                         connected, frame_lock>>
                     ELSE write_frame_return(t, TRUE)
  /\ UNCHANGED <<variant, sock, sockState, rbuf, inStream, rpos, peerClosed,
                 nopen, cvars>>

(* ------------------------------- close -------------------------------- *)
\* (mutant) close() without its "if self.sock is not None"
close_enter_unguarded(t) ==
  /\ pc[t] = "idle"
  /\ cur[t] = 0
  /\ cur' = [cur EXCEPT ![t] = Len(hist) + 1]
  /\ hist' = Append(hist, Call(t, "close", <<>>, 0))
  /\ pc' = [pc EXCEPT ![t] = "cl_shutdown"]
  /\ UNCHANGED <<frame, n, to_read, initial, s>>
  /\ UNCHANGED <<variant, sock, sockState, connected, frame_lock, rbuf, inStream,
                 rpos, peerClosed, wire, wtag, errs, nopen, cvars>>

\* (mutant) close() under @synchronized('_frame_lock'): it waits for the lock
close_enter_locked(t) ==
  /\ lock_free
  /\ pc[t] = "idle"
  /\ cur[t] = 0
  /\ cur' = [cur EXCEPT ![t] = Len(hist) + 1]
  /\ hist' = Append(hist, Call(t, "close", <<>>, 0))
  /\ pc' = [pc EXCEPT ![t] = IF sock # "None" THEN "cl_shutdown" ELSE "cl_flag"]
  /\ UNCHANGED <<frame, n, to_read, initial, s>>
  /\ UNCHANGED <<variant, sock, sockState, connected, frame_lock, rbuf, inStream,
                 rpos, peerClosed, wire, wtag, errs, nopen, cvars>>

\* close() is entered; "if self.sock is not None" is evaluated
close_enter(t) ==
  /\ pc[t] = "idle"
  /\ cur[t] = 0
  /\ cur' = [cur EXCEPT ![t] = Len(hist) + 1]
  /\ hist' = Append(hist, Call(t, "close", <<>>, 0))
  /\ pc' = [pc EXCEPT ![t] = IF sock # "None" THEN "cl_shutdown" ELSE "cl_flag"]
  /\ UNCHANGED <<frame, n, to_read, initial, s>>
  /\ UNCHANGED <<variant, sock, sockState, connected, frame_lock, rbuf, inStream,
                 rpos, peerClosed, wire, wtag, errs, nopen, cvars>>

\* close() raises exc: nothing below the raising line runs
close_raise(t, exc) ==
  /\ Idle(t)
  /\ hist' = [Closed(t, exc, <<>>, FALSE) EXCEPT ![cur[t]].raw = exc]

\* self.sock.shutdown(socket.SHUT_RDWR)
close_shutdown(t) ==
  /\ pc[t] = "cl_shutdown"
  /\ \/ /\ sock = "None"
        /\ close_raise(t, AttributeError)
        /\ UNCHANGED <<sockState, errs>>
     \/ /\ sock # "None" /\ sockState = "closed"
        /\ close_raise(t, Exc("OSError", "EBADF"))
        /\ UNCHANGED <<sockState, errs>>
     \/ /\ sock # "None" /\ sockState # "closed" /\ errs < MaxErrs
        /\ close_raise(t, Exc("OSError", "ENOTCONN"))
        /\ errs' = errs + 1
        /\ UNCHANGED sockState
     \/ /\ sock # "None" /\ sockState # "closed"
        /\ sockState' = "shut"
        /\ pc' = [pc EXCEPT ![t] = "cl_close"]
        /\ UNCHANGED <<frame, n, to_read, initial, s, cur, hist, errs>>
  /\ UNCHANGED <<variant, sock, connected, frame_lock, rbuf, inStream, rpos,
                 peerClosed, wire, wtag, nopen, cvars>>

\* self.sock.close()
close_close(t) ==
  /\ pc[t] = "cl_close"
  /\ IF sock = "None"
     THEN /\ close_raise(t, AttributeError)
          /\ UNCHANGED <<sockState, nopen>>
     ELSE /\ sockState' = "closed"
          /\ nopen' = IF sockState = "closed" THEN nopen ELSE nopen - 1
          /\ pc' = [pc EXCEPT ![t] = "cl_none"]
          /\ UNCHANGED <<frame, n, to_read, initial, s, cur, hist>>
  /\ UNCHANGED <<variant, sock, connected, frame_lock, rbuf, inStream, rpos,
                 peerClosed, wire, wtag, errs, cvars>>

\* self.sock = None
close_none(t) ==
  /\ pc[t] = "cl_none"
  /\ sock' = "None"
  /\ pc' = [pc EXCEPT ![t] = "cl_flag"]
  /\ UNCHANGED <<frame, n, to_read, initial, s, cur, hist>>
  /\ UNCHANGED <<variant, sockState, connected, frame_lock, rbuf, inStream, rpos,
                 peerClosed, wire, wtag, errs, nopen, cvars>>

\* self.connected = False, and close() returns
close_flag(t) ==
  /\ pc[t] = "cl_flag"
  /\ connected' = FALSE
  /\ Idle(t)
  /\ hist' = Closed(t, RetNone, <<>>, FALSE)
  /\ UNCHANGED <<variant, sock, sockState, frame_lock, rbuf, inStream, rpos,
                 peerClosed, wire, wtag, errs, nopen, cvars>>

(* --------------------------- specification ---------------------------- *)
Next ==
  \/ \E t \in Threads : read_frame_enter(t)
  \/ \E t \in Threads : recv(t)
  \/ \E t \in Threads : write_frame_enter(t)
  \/ \E t \in Threads : send(t)
  \/ \E t \in Threads : close_enter(t)
  \/ \E t \in Threads : close_shutdown(t)
  \/ \E t \in Threads : close_close(t)
  \/ \E t \in Threads : close_none(t)
  \/ \E t \in Threads : close_flag(t)
  \/ peer_close

Spec == Init /\ [][Next]_vars

(* ----------------------------- __init__ ------------------------------- *)
\* most candidates getaddrinfo returns in a run
MaxAddrs == 3

\* a candidate's fate: "ok" (socket() and connect() succeed), the errno with
\* which connect() fails, or "EAFNOSUPPORT": socket() itself fails
ConnectErrnos == {"ECONNREFUSED", "ETIMEDOUT"}
SocketErrnos == {"EAFNOSUPPORT"}
Fates == {"ok"} \cup ConnectErrnos \cup SocketErrnos
AddrLists == UNION {[1..k -> Fates] : k \in 1..MaxAddrs}

\* the threads do nothing while the object is constructed
ctor_frame ==
  UNCHANGED <<variant, frame_lock, rbuf, inStream, rpos, peerClosed, errs, hist,
              tvars, addrs>>

\* line 47: self.sock = socket.socket(af, socktype, proto), and for a failure
\* the except clause of lines 51-54, which starts with self.sock.close()
init_socket ==
  /\ cpc = "loop"
  /\ ai <= Len(addrs)
  /\ IF addrs[ai] \in SocketErrnos
     THEN \* self.sock is still None: self.sock.close() raises AttributeError
          /\ cpc' = "raised"
          /\ raised' = AttributeError
          /\ UNCHANGED <<sock, sockState, nopen>>
     ELSE /\ sock' = "socket"
          /\ sockState' = "open"
          /\ nopen' = nopen + 1
          /\ cpc' = "connect"
          /\ UNCHANGED raised
  /\ UNCHANGED <<connected, wire, wtag, ai, last_err>>
  /\ ctor_frame

\* lines 48-54: settimeout, connect; break, or close the socket and go on
init_connect ==
  /\ cpc = "connect"
  /\ IF addrs[ai] = "ok"
     THEN /\ cpc' = "opts"
          /\ UNCHANGED <<sock, sockState, nopen, ai, last_err>>
     ELSE /\ sockState' = "closed"
          /\ nopen' = nopen - 1
          /\ sock' = "None"
          /\ last_err' = addrs[ai]
          /\ ai' = ai + 1
          /\ cpc' = "loop"
  /\ UNCHANGED <<connected, wire, wtag, raised>>
  /\ ctor_frame

\* lines 56-58: the loop ended without a socket
init_exhausted ==
  /\ cpc = "loop"
  /\ ai > Len(addrs)
  /\ cpc' = "raised"
  /\ raised' = Exc("socket.error", last_err)
  /\ UNCHANGED <<sock, sockState, nopen, connected, wire, wtag, ai, last_err>>
  /\ ctor_frame

\* lines 68-71: the except clause around the steps after the connect
init_except(exc) ==
  /\ cpc' = "raised"
  /\ raised' = exc
  /\ connected' = IF get_errno(exc) \notin UNAVAIL THEN FALSE ELSE connected

\* lines 61-63: settimeout(None) and the two setsockopt calls
init_opts ==
  /\ cpc = "opts"
  /\ \/ /\ cpc' = "setup"
        /\ UNCHANGED <<connected, raised>>
     \/ \E e \in SocketErrors("tcp") : init_except(e)
  /\ UNCHANGED <<sock, sockState, nopen, wire, wtag, ai, last_err>>
  /\ ctor_frame

\* line 65: self._setup_transport(): ssl.wrap_socket for SSLTransport
init_setup ==
  /\ cpc = "setup"
  /\ \/ /\ cpc' = "header"
        /\ UNCHANGED <<connected, raised>>
     \/ /\ variant = "ssl"
        /\ \E e \in SocketErrors("ssl") : init_except(e)
  /\ UNCHANGED <<sock, sockState, nopen, wire, wtag, ai, last_err>>
  /\ ctor_frame

\* (mutant) connected = True set before the header is written
init_header_flag_first ==
  /\ cpc = "header"
  /\ \/ /\ wire' = wire \o AMQP_PROTOCOL_HEADER
        /\ wtag' = wtag \o [i \in 1..Len(AMQP_PROTOCOL_HEADER) |-> 0]
        /\ connected' = TRUE
        /\ cpc' = "done"
        /\ UNCHANGED raised
     \/ \E k \in 0..(Len(AMQP_PROTOCOL_HEADER) - 1) :
        \E e \in SocketErrors(variant) \cup {SocketClosed} :
          /\ wire' = wire \o SubSeq(AMQP_PROTOCOL_HEADER, 1, k)
          /\ wtag' = wtag \o [i \in 1..k |-> 0]
          /\ cpc' = "raised"
          /\ raised' = e
          /\ connected' = IF get_errno(e) \notin UNAVAIL THEN FALSE ELSE TRUE
  /\ UNCHANGED <<sock, sockState, nopen, ai, last_err>>
  /\ ctor_frame

\* line 67 and 73: self.write(AMQP_PROTOCOL_HEADER), then connected = True;
\* a write that fails may have sent a part of the header
init_header ==
  /\ cpc = "header"
  /\ \/ /\ wire' = wire \o AMQP_PROTOCOL_HEADER
        /\ wtag' = wtag \o [i \in 1..Len(AMQP_PROTOCOL_HEADER) |-> 0]
        /\ connected' = TRUE
        /\ cpc' = "done"
        /\ UNCHANGED raised
     \/ \E k \in 0..(Len(AMQP_PROTOCOL_HEADER) - 1) :
        \E e \in SocketErrors(variant) \cup {SocketClosed} :
          /\ wire' = wire \o SubSeq(AMQP_PROTOCOL_HEADER, 1, k)
          /\ wtag' = wtag \o [i \in 1..k |-> 0]
          /\ init_except(e)
  /\ UNCHANGED <<sock, sockState, nopen, ai, last_err>>
  /\ ctor_frame

\* lines 75-85: __del__, run when the object whose constructor raised is
\* collected, some time after the caller got the exception: close() with its
\* exceptions swallowed (it may stop at a failing shutdown, before
\* self.connected = False), then self.sock = None, which drops the socket
init_del ==
  /\ cpc = "raised"
  /\ cpc' = "deleted"
  /\ sock' = "None"
  /\ sockState' = IF sock = "socket" THEN "closed" ELSE sockState
  /\ nopen' = IF sock = "socket" /\ sockState # "closed" THEN nopen - 1 ELSE nopen
  /\ \E completes \in BOOLEAN :
       connected' = IF completes THEN FALSE ELSE connected
  /\ UNCHANGED <<wire, wtag, ai, last_err, raised>>
  /\ ctor_frame

\* a Transport object before __init__ runs its loop (lines 23, 34-43)
InitConn ==
  /\ variant \in {"tcp", "ssl"}
  /\ sock = "None"
  /\ sockState = "none"
  /\ connected = FALSE
  /\ frame_lock = NoThread
  /\ rbuf = [i \in 1..BufSize |-> 0]
  /\ inStream = <<>>
  /\ rpos = 0
  /\ peerClosed = FALSE
  /\ wire = <<>>
  /\ wtag = <<>>
  /\ errs = 0
  /\ nopen = 0
  /\ cpc = "loop"
  /\ addrs \in AddrLists
  /\ ai = 1
  /\ last_err = "None"
  /\ raised = NoExc
  /\ ThreadsInit

NextConn ==
  \/ init_socket
  \/ init_connect
  \/ init_exhausted
  \/ init_opts
  \/ init_setup
  \/ init_header
  \/ init_del

\* the constructor alone
SpecConn == InitConn /\ [][NextConn]_vars

(* ----------------------- read(n, initial) alone ----------------------- *)
\* a caller calls TCPTransport.read / SSLTransport.read itself: _read(n,
\* initial, _errnos) with any n and either flag, one call at a time
read_call(t) ==
  /\ cur[t] = 0
  /\ \A u \in Threads : pc[u] = "idle"
  /\ \E k \in 0..(BufSize + 1) : \E init \in BOOLEAN :
       /\ cur' = [cur EXCEPT ![t] = Len(hist) + 1]
       /\ IF while_to_read(k)
          THEN /\ read_begin(t, "rd_raw", <<>>, k, init)
               /\ hist' = Append(hist, Call(t, "read", <<>>, k))
          ELSE \* the loop is not entered: memoryview(self._rbuf)[:0]
               /\ hist' = Append(hist, [Call(t, "read", <<>>, k)
                                          EXCEPT !.res = RetNone,
                                                 !.data = read_view(rbuf, k)])
               /\ UNCHANGED <<pc, frame, n, to_read, initial, s>>
  /\ UNCHANGED <<variant, sock, sockState, connected, frame_lock, rbuf, inStream,
                 rpos, peerClosed, wire, wtag, errs, nopen, cvars>>

NextRead ==
  \/ \E t \in Threads : read_call(t)
  \/ \E t \in Threads : recv(t)
  \/ peer_close

InitRead ==
  /\ Connected
  /\ ThreadsInit
  /\ inStream = RawStream

SpecRead == InitRead /\ [][NextRead]_vars

(* ------------------------------ loopback ------------------------------ *)
\* the bytes sent after the protocol header
sent == SubSeq(wire, Len(AMQP_PROTOCOL_HEADER) + 1, Len(wire))

\* the peer takes the protocol header and sends back every later byte as it
\* is: what was written so far is what the stream delivers
echo ==
  /\ Len(inStream) < Len(sent)
  /\ inStream' = sent
  /\ UNCHANGED <<variant, sock, sockState, connected, frame_lock, rbuf, rpos,
                 peerClosed, wire, wtag, errs, hist, nopen, cvars, tvars>>

InitLoop ==
  /\ Connected
  /\ ThreadsInit
  /\ inStream = <<>>

NextLoop ==
  \/ \E t \in Threads : read_frame_enter(t)
  \/ \E t \in Threads : recv(t)
  \/ \E t \in Threads : write_frame_enter(t)
  \/ \E t \in Threads : send(t)
  \/ echo

SpecLoop == InitLoop /\ [][NextLoop]_vars

(* -------------------------- writes alone ------------------------------ *)
InitWrite ==
  /\ Connected
  /\ ThreadsInit
  /\ inStream = <<>>

NextWrite ==
  \/ \E t \in Threads : write_frame_enter(t)
  \/ \E t \in Threads : send(t)
  \/ peer_close

\* a thread inside the write loop is scheduled again: it makes its next
\* underlying call
SpecWrite ==
  InitWrite /\ [][NextWrite]_vars /\ \A t \in Threads : WF_vars(send(t))

(* ------------------- close() against calls in flight ------------------ *)
\* the peer has sent one whole frame, or nothing: a read_frame finds a Frame,
\* or blocks waiting for one
InitCancel ==
  /\ Connected
  /\ ThreadsInit
  /\ inStream \in {F1, <<>>}

NextCancel ==
  \/ \E t \in Threads : read_frame_enter(t)
  \/ \E t \in Threads : recv(t)
  \/ \E t \in Threads : write_frame_enter(t)
  \/ \E t \in Threads : send(t)
  \/ \E t \in Threads : close_enter(t)
  \/ \E t \in Threads : close_shutdown(t)
  \/ \E t \in Threads : close_close(t)
  \/ \E t \in Threads : close_none(t)
  \/ \E t \in Threads : close_flag(t)

\* a thread inside a call goes on running: a receive or send that the socket
\* can answer (with bytes, end of stream or an error) returns, and a close()
\* that has started executes its next statement
SpecCancel ==
  /\ InitCancel /\ [][NextCancel]_vars
  /\ \A t \in Threads :
       /\ WF_vars(recv(t)) /\ WF_vars(send(t))
       /\ WF_vars(close_shutdown(t)) /\ WF_vars(close_close(t))
       /\ WF_vars(close_none(t)) /\ WF_vars(close_flag(t))

(* ============================== claims ================================ *)
ReadPcs == {"rd_hdr", "rd_pay", "rd_term"}
Readers == {t \in Threads : pc[t] \in ReadPcs}
Writers == {t \in Threads : pc[t] = "wr"}
Calls == 1..Len(hist)
ReadFrames == {i \in Calls : hist[i].op = "read_frame"}
WriteFrames == {i \in Calls : hist[i].op = "write_frame"}

\* the k bytes of the incoming stream after the first from ones
Slice(from, k) ==
  IF from + k <= Len(inStream) THEN SubSeq(inStream, from + 1, from + k)
  ELSE <<-1>>

IsPrefix(a, b) == Len(a) <= Len(b) /\ a = SubSeq(b, 1, Len(a))

\* the places of the wire that call c wrote, and the bytes there
TagIdx(c) == {i \in 1..Len(wtag) : wtag[i] = c}
BytesOf(c) ==
  IF TagIdx(c) = {} THEN <<>>
  ELSE LET lo == CHOOSE i \in TagIdx(c) : \A j \in TagIdx(c) : i <= j
       IN  [k \in 1..Cardinality(TagIdx(c)) |-> wire[lo + k - 1]]

\* C1: with any threads calling read_frame concurrently, at most one thread is
\* between the start of the header read and the end of the terminator read;
\* the bytes a read_frame has accumulated, and every Frame returned, are
\* contiguous bytes of the incoming stream, and two returned Frames do not
\* overlap.
C1_ReadFramesWhole ==
  /\ Cardinality(Readers) <= 1
  /\ \A t \in Readers : frame[t] = Slice(hist[cur[t]].start, Len(frame[t]))
  /\ \A i \in ReadFrames :
       hist[i].res = RetFrame =>
         hist[i].data = Slice(hist[i].start, Len(hist[i].data))
  /\ \A i, j \in ReadFrames :
       (i < j /\ hist[i].res = RetFrame /\ hist[j].res = RetFrame) =>
         hist[i].start + Len(hist[i].data) <= hist[j].start

\* two threads each got a whole Frame from the same Transport
C1_Witness ==
  \E i, j \in ReadFrames :
    /\ hist[i].thr # hist[j].thr
    /\ hist[i].res = RetFrame /\ hist[j].res = RetFrame
    /\ hist[i].data = F1 /\ hist[j].data = F2

\* C2: with any threads calling write_frame concurrently, at most one thread
\* is writing; the wire after the protocol header is made of one block of
\* bytes per write_frame call, the blocks in the order of the calls, never
\* the bytes of two calls interleaved; each block is a prefix of the call's
\* frame image and the whole image once the call has returned, however many
\* underlying calls it took.
C2_WritesWhole ==
  /\ Cardinality(Writers) <= 1
  /\ \A i \in 1..(Len(wtag) - 1) : wtag[i] <= wtag[i + 1]
  /\ \A c \in WriteFrames :
       /\ IsPrefix(BytesOf(c), hist[c].img)
       /\ hist[c].res = RetNone => BytesOf(c) = hist[c].img

\* two threads each wrote a frame, each in several underlying calls
C2_Witness ==
  \E c, d \in WriteFrames :
    /\ hist[c].thr # hist[d].thr
    /\ hist[c].res = RetNone /\ hist[d].res = RetNone
    /\ Len(hist[c].img) > MaxChunk /\ Len(hist[d].img) > MaxChunk
    /\ wire = AMQP_PROTOCOL_HEADER \o hist[c].img \o hist[d].img

\* C3 as the spec states it: read_frame and write_frame use independent
\* locks, so a thread that has made no call yet can enter write_frame while
\* another is inside read_frame, and read_frame while another is inside
\* write_frame.
C3_IndependentLocks ==
  \A t, u \in Threads :
    (t # u /\ pc[u] = "idle" /\ cur[u] = 0) =>
      /\ (pc[t] \in ReadPcs /\ Writers = {}) => ENABLED write_frame_enter(u)
      /\ (pc[t] = "wr" /\ Readers = {}) => ENABLED read_frame_enter(u)

\* C3 as amended: read_frame and write_frame share the one lock _frame_lock:
\* at most one thread is inside read_frame or write_frame, it holds the lock,
\* and no other thread can enter either of them meanwhile.
C3_OneFrameLock ==
  /\ Cardinality(Readers \cup Writers) <= 1
  /\ \A t \in Readers \cup Writers :
       /\ frame_lock = t
       /\ \A u \in Threads \ {t} :
            ~ENABLED write_frame_enter(u) /\ ~ENABLED read_frame_enter(u)

\* a thread is blocked inside read_frame waiting for bytes (none have come,
\* the peer has not closed, no error is pending) while the other thread has
\* yet to make its call
C3_Witness ==
  \E t, u \in Threads :
    /\ pc[t] \in ReadPcs /\ avail = 0 /\ ~peerClosed /\ sockState = "open"
    /\ pc[u] = "idle" /\ cur[u] = 0

\* C4: read(n, initial) returns exactly n bytes, the next n bytes of the
\* stream in order, or fails: what it has stored in the scratch buffer so far
\* are the next bytes of the stream, and a call that returned returned n bytes.
C4_ReadExact ==
  /\ \A t \in Threads :
       pc[t] = "rd_raw" =>
         SubSeq(rbuf, 1, n[t] - to_read[t])
           = Slice(hist[cur[t]].start, n[t] - to_read[t])
  /\ \A i \in Calls :
       (hist[i].op = "read" /\ hist[i].res = RetNone) =>
         /\ Len(hist[i].data) = hist[i].n
         /\ hist[i].data = Slice(hist[i].start, hist[i].n)

\* a second read on the same Transport returned a whole buffer of bytes after
\* the socket raised an error
C4_Witness ==
  /\ Len(hist) = 2
  /\ hist[1].op = "read" /\ hist[1].res = RetNone /\ hist[1].n > 1
  /\ hist[2].op = "read" /\ hist[2].res = RetNone /\ hist[2].n = BufSize
  /\ errs > 0

\* C5: a read_frame that read a terminator other than 0xCE raised
\* UnexpectedFrame and returned no Frame; a Frame is returned only made of a
\* 7-byte header, payload_size bytes of payload and a terminator 0xCE.
C5_Terminator ==
  \A i \in ReadFrames :
    /\ hist[i].res = RetFrame =>
         /\ Len(hist[i].data) = HeaderLen + payload_size(hist[i].data) + 1
         /\ hist[i].data[Len(hist[i].data)] = FrameEnd
    /\ hist[i].res = UnexpectedFrame =>
         /\ Len(hist[i].data) = HeaderLen + payload_size(hist[i].data) + 1
         /\ hist[i].data[Len(hist[i].data)] # FrameEnd
    /\ (hist[i].res # NoExc /\ Len(hist[i].data) > HeaderLen
          /\ hist[i].data[Len(hist[i].data)] # FrameEnd) =>
         hist[i].res = UnexpectedFrame

\* a read_frame read the frame with terminator 0 and raised UnexpectedFrame
C5_Witness ==
  \E i \in ReadFrames : hist[i].res = UnexpectedFrame /\ hist[i].data = FBad

\* C6: a frame image written by write_frame and delivered back by the
\* stream, in whatever chunks, is what read_frame assembles, byte for byte;
\* a well-formed one is returned as a Frame.
C6_RoundTrip ==
  \A i \in ReadFrames :
    hist[i].res \in {RetFrame, UnexpectedFrame} =>
      \E c \in WriteFrames :
        /\ hist[i].data = hist[c].img
        /\ hist[i].res = RetFrame <=> hist[c].img[Len(hist[c].img)] = FrameEnd

\* the frame with a payload came back
C6_Witness ==
  \E i \in ReadFrames : \E c \in WriteFrames :
    hist[i].res = RetFrame /\ hist[i].data = F2 /\ hist[c].img = F2

\* C7 as the spec states it: after read_frame or write_frame failed with a
\* peer-closed error, or read_frame with a frame-format error, connected is
\* false.
C7_ClosedOrBadFrameDisconnects ==
  \A i \in ReadFrames \cup WriteFrames :
    hist[i].res \in {SocketClosed, UnexpectedFrame} => ~connected

\* the step in which read_frame of thread t raises UnexpectedFrame
RaisesUnexpectedFrame(t) ==
  /\ pc[t] = "rd_term"
  /\ pc'[t] = "idle"
  /\ hist'[cur[t]].res = UnexpectedFrame

C7_PeerClosedDisconnects ==
  \A i \in ReadFrames \cup WriteFrames : hist[i].res = SocketClosed => ~connected

\* C7 as amended: after read_frame or write_frame failed with a peer-closed
\* error connected is false; a frame-format error leaves connected as it was.
C7_Amended ==
  /\ []C7_PeerClosedDisconnects
  /\ [][\A t \in Threads : RaisesUnexpectedFrame(t) => connected' = connected]_vars

\* a read_frame raised UnexpectedFrame and left connected true; the next call
\* failed because the peer had closed, and connected is false
C7_Witness ==
  \E i, j \in ReadFrames \cup WriteFrames :
    /\ hist[j].res = UnexpectedFrame
    /\ j < i /\ hist[i].conn0
    /\ hist[i].res = SocketClosed /\ hist[i].zero
    /\ ~connected

\* C8: a read_frame or write_frame called when connected is false fails at
\* once with an error: it makes no recv_into or send on the socket and does
\* not return.
C8_DisconnectedFailsFast ==
  \A i \in ReadFrames \cup WriteFrames :
    ~hist[i].conn0 => (~hist[i].io /\ hist[i].res \notin {RetFrame, RetNone})

\* C9: the candidates are tried in order and the first that opens and
\* connects is taken; a failed candidate's socket is closed before the next
\* is tried, so no more than one socket is ever open; with no candidate left
\* the constructor raises socket.error with the last error, no socket open.
C9_FirstCandidateThatConnects ==
  /\ nopen <= 1
  /\ cpc \in {"opts", "setup", "header", "done"} =>
       /\ addrs[ai] = "ok"
       /\ \A j \in 1..(ai - 1) : addrs[j] # "ok"
  /\ (cpc = "raised" /\ \E j \in 1..Len(addrs) : addrs[j] = "ok") =>
       \E j \in 1..ai : addrs[j] = "ok"
  /\ (cpc = "raised" /\ \A j \in 1..Len(addrs) : addrs[j] # "ok") =>
       /\ raised = Exc("socket.error", addrs[Len(addrs)])
       /\ nopen = 0

\* during an SSL write the bytes accepted so far followed by what is left to
\* write are the frame image; a write returns only with every byte accepted;
\* an underlying write that reported zero bytes ended the call with
\* "Socket closed"
C10_WriteInv ==
  \A c \in WriteFrames :
    variant = "ssl" =>
      /\ IsPrefix(BytesOf(c), hist[c].img)
      /\ pc[hist[c].thr] = "wr" => hist[c].img = BytesOf(c) \o s[hist[c].thr]
      /\ hist[c].res = RetNone => BytesOf(c) = hist[c].img
      /\ hist[c].zero => hist[c].res = SocketClosed

\* C10: an SSL write of L bytes, with underlying writes that each accept 1 or
\* more bytes, hands every byte to the socket once and in order: what was
\* accepted so far followed by what is left is the image, and the call
\* returns only with all L bytes accepted; an underlying write that reports
\* zero bytes ends the call with "Socket closed"; and every write in progress
\* ends.
C10_SSLWrite ==
  /\ []C10_WriteInv
  /\ \A t \in Threads : (pc[t] = "wr") ~> (pc[t] = "idle")

\* an SSL write of an image longer than one underlying call accepts returned
C10_Witness ==
  \E c \in WriteFrames :
    /\ variant = "ssl"
    /\ hist[c].res = RetNone
    /\ Len(hist[c].img) > 2 * MaxChunk
    /\ BytesOf(c) = hist[c].img

Closes == {i \in Calls : hist[i].op = "close"}
\* a close() called on a Transport that is already closed
AlreadyClosed(i) ==
  hist[i].op = "close" /\ hist[i].sock0 = "None" /\ ~hist[i].conn0

\* C11: a close() called on an already-closed Transport (socket released,
\* connected false) makes no socket call (it never reaches shutdown or close),
\* raises nothing, and the state stays as it was: socket released and closed,
\* connected false.
C11_CloseIdempotent ==
  \A i \in Closes :
    AlreadyClosed(i) =>
      /\ hist[i].res \in {NoExc, RetNone}
      /\ pc[hist[i].thr] \in {"cl_flag", "idle"}
      /\ sock = "None" /\ sockState = "closed" /\ nopen = 0
      /\ ~connected

\* a second close(), called after the first returned, returned as well
C11_Witness ==
  \E i, j \in Closes :
    /\ i < j
    /\ hist[i].res = RetNone /\ hist[i].sock0 = "socket"
    /\ AlreadyClosed(j) /\ hist[j].res = RetNone

\* the constructor failed after a candidate had connected
FailedAfterConnect ==
  cpc \in {"raised", "deleted"} /\ ai <= Len(addrs) /\ addrs[ai] = "ok"

\* C12: once construction has failed at a step after a socket was connected
\* (settimeout / setsockopt, the TLS handshake, the write of the protocol
\* header), connected is false, the socket has been closed, and the error the
\* caller gets is the one the failing step raised.
C12_FailedConstructionCleansUp ==
  FailedAfterConnect =>
    /\ ~connected
    /\ sockState = "closed" /\ nopen = 0
    /\ raised \in SocketErrors(variant) \cup {SocketClosed}

\* the step in which thread t's read_frame / write_frame ends
EndsRead(t) == pc[t] \in ReadPcs /\ pc'[t] = "idle"
EndsWrite(t) == pc[t] = "wr" /\ pc'[t] = "idle"

\* C13 as the spec states it: a timeout raised by the underlying receive or
\* send during read_frame or write_frame, a TLS error that reports "timed
\* out" included, reaches the caller as a timeout and leaves connected as it
\* was.
C13_TimeoutsPropagate ==
  [][\A t \in Threads :
       ((EndsRead(t) \/ EndsWrite(t))
          /\ hist'[cur[t]].raw \in {SocketTimeout, SSLTimedOut}) =>
         (hist'[cur[t]].res = SocketTimeout /\ connected' = connected)]_vars

\* C13 as amended: a socket.timeout raised during read_frame or write_frame,
\* and a TLS error reporting "timed out" raised during read_frame, reaches the
\* caller as a timeout and leaves connected as it was; a TLS error reporting
\* "timed out" raised during write_frame reaches the caller as the TLS error
\* and sets connected to false.
C13_Amended ==
  [][\A t \in Threads :
       /\ ((EndsRead(t) \/ EndsWrite(t)) /\ hist'[cur[t]].raw = SocketTimeout) =>
            (hist'[cur[t]].res = SocketTimeout /\ connected' = connected)
       /\ (EndsRead(t) /\ hist'[cur[t]].raw = SSLTimedOut) =>
            (hist'[cur[t]].res = SocketTimeout /\ connected' = connected)
       /\ (EndsWrite(t) /\ hist'[cur[t]].raw = SSLTimedOut) =>
            (hist'[cur[t]].res = SSLTimedOut /\ ~connected')]_vars

\* a read_frame on the TLS variant ended with the TLS "timed out" error,
\* raised to the caller as socket.timeout, and connected is still true
C13_Witness ==
  \E i \in ReadFrames :
    /\ variant = "ssl"
    /\ hist[i].raw = SSLTimedOut /\ hist[i].res = SocketTimeout
    /\ hist[i].conn0 /\ connected

\* the step in which a close() ends with self.connected = False
EndsClose(t) == pc[t] = "cl_flag" /\ pc'[t] = "idle"

\* an I/O error that, as the spec states it, marks the Transport
\* disconnected: not a timeout (a TLS "timed out" error counted as one), its
\* code not in the transient set of the variant
FatalByVariant(exc) ==
  /\ is_socket_error(exc)
  /\ exc \notin {SocketTimeout, SSLTimedOut}
  /\ exc.errno \notin read_errnos(variant)

\* an I/O error that marks the Transport disconnected when it ends thread t's
\* call: not socket.timeout, not (in read_frame) a TLS "timed out" error, its
\* code not in EAGAIN, EINTR, ENOENT whatever the variant
FatalByUnavail(t, exc) ==
  /\ is_socket_error(exc)
  /\ exc # SocketTimeout
  /\ ~(pc[t] \in ReadPcs /\ exc = SSLTimedOut)
  /\ exc.errno \notin {"EAGAIN", "EINTR", "ENOENT"}

\* C14 as the spec states it: a read_frame or write_frame that propagates an
\* I/O error that is neither a timeout nor one whose code is in the transient
\* set of the variant (plain: EAGAIN, EINTR; TLS: EAGAIN, EINTR, ENOENT) leaves
\* connected false; and connected becomes false only by such an error or by
\* close().
C14_VariantTransientSet ==
  [][/\ \A t \in Threads :
          ((EndsRead(t) \/ EndsWrite(t)) /\ FatalByVariant(hist'[cur[t]].raw))
            => ~connected'
     /\ (connected /\ ~connected') =>
          \E t \in Threads :
            \/ EndsClose(t)
            \/ (EndsRead(t) \/ EndsWrite(t)) /\ FatalByVariant(hist'[cur[t]].raw)
    ]_vars

\* C14 as amended: a read_frame or write_frame that propagates an I/O error
\* that is neither a timeout (socket.timeout, or in read_frame a TLS "timed
\* out" error) nor one whose code is in EAGAIN, EINTR, ENOENT, the same set for
\* both variants, leaves connected false; and connected becomes false only by
\* such an error or by close().
C14_Amended ==
  [][/\ \A t \in Threads :
          ((EndsRead(t) \/ EndsWrite(t)) /\ FatalByUnavail(t, hist'[cur[t]].raw))
            => ~connected'
     /\ (connected /\ ~connected') =>
          \E t \in Threads :
            \/ EndsClose(t)
            \/ (EndsRead(t) \/ EndsWrite(t))
                 /\ FatalByUnavail(t, hist'[cur[t]].raw)
    ]_vars

\* a write_frame on a connected Transport ended with a connection reset and
\* connected is false; no close() was called
C14_Witness ==
  \E i \in WriteFrames :
    /\ hist[i].raw = Exc("OSError", "ECONNRESET") /\ hist[i].res = hist[i].raw
    /\ hist[i].conn0 /\ ~connected
    /\ Closes = {}

InRead(t) == pc[t] \in ReadPcs \cup {"rd_raw"}
\* an OS error whose code is in the variant's transient set
Transient(exc) == is_socket_error(exc) /\ exc.errno \in read_errnos(variant)

\* C15: in read(n, initial), when a receive call raises an error: with initial
\* false an error whose code is in the variant's transient set is swallowed
\* and the receive retried, the bytes received so far and the count still
\* missing kept as they are, and only other errors end the read; with initial
\* true every error, a transient one included, ends the read at once and
\* nothing is retried.
C15_RetryUnlessInitial ==
  [][\A t \in Threads :
       /\ (InRead(t) /\ hist'[cur[t]].retries # hist[cur[t]].retries) =>
            /\ ~initial[t]
            /\ hist'[cur[t]].retries = hist[cur[t]].retries + 1
            /\ pc'[t] = pc[t] /\ n'[t] = n[t] /\ to_read'[t] = to_read[t]
            /\ rbuf' = rbuf /\ rpos' = rpos
       /\ (InRead(t) /\ pc'[t] = "idle" /\ Transient(hist'[cur[t]].raw)) =>
            initial[t]
       /\ (InRead(t) /\ errs' # errs /\ initial[t]) =>
            /\ pc'[t] = "idle"
            /\ hist'[cur[t]].raw # NoExc
            /\ hist'[cur[t]].retries = hist[cur[t]].retries
       /\ (InRead(t) /\ errs' # errs /\ ~initial[t]) =>
            \/ hist'[cur[t]].retries = hist[cur[t]].retries + 1
            \/ pc'[t] = "idle" /\ ~Transient(hist'[cur[t]].raw)
    ]_vars

\* a read with initial false swallowed a transient error and returned its n
\* bytes, the next n of the stream
C15_Witness ==
  \E i \in Calls :
    /\ hist[i].op = "read" /\ hist[i].n = BufSize
    /\ hist[i].retries = 1 /\ hist[i].res = RetNone
    /\ hist[i].data = Slice(hist[i].start, hist[i].n)

\* the order of the constructor's steps
CtorOrder ==
  {<<"loop", "connect">>, <<"connect", "loop">>, <<"connect", "opts">>,
   <<"opts", "setup">>, <<"setup", "header">>, <<"header", "done">>,
   <<"loop", "raised">>, <<"opts", "raised">>, <<"setup", "raised">>,
   <<"header", "raised">>, <<"raised", "deleted">>}

C16_OrderInv ==
  /\ connected => (cpc = "done" /\ wire = AMQP_PROTOCOL_HEADER)
  /\ IsPrefix(wire, AMQP_PROTOCOL_HEADER)
  /\ cpc \in {"loop", "connect", "opts", "setup"} => wire = <<>>
  /\ cpc \in {"opts", "setup", "header", "done"} =>
       (sock = "socket" /\ sockState = "open" /\ addrs[ai] = "ok")
  /\ cpc = "done" => connected

\* C16: the constructor's steps happen in the order: a candidate connects,
\* the timeout is cleared and the options set, the variant's setup runs, the
\* 8-byte protocol header is written, connected becomes true. Nothing is
\* written before the last of these steps and nothing but the header, once;
\* connected is true only with the whole header written.
C16_ConstructionOrder ==
  /\ []C16_OrderInv
  /\ [][/\ cpc' # cpc => <<cpc, cpc'>> \in CtorOrder
        /\ wire' # wire => cpc = "header"
        /\ connected' # connected =>
             (cpc = "header" /\ cpc' = "done" /\ connected'
                /\ wire' = AMQP_PROTOCOL_HEADER)
       ]_vars

\* a TLS Transport was constructed on its second candidate: the header is on
\* the wire and connected is true
C16_Witness ==
  /\ variant = "ssl" /\ cpc = "done" /\ ai = 2
  /\ wire = AMQP_PROTOCOL_HEADER /\ connected

ClosePcs == {"cl_shutdown", "cl_close", "cl_none", "cl_flag"}
InFrameCall(t) == pc[t] \in ReadPcs \cup {"wr"}
\* some close() has returned
CloseReturned == \E i \in Closes : hist[i].res = RetNone
IsError(res) == res \notin {NoExc, RetFrame, RetNone}

\* while a thread is inside read_frame or write_frame another thread can
\* enter close()
C17_Safety ==
  \A t, u \in Threads :
    (t # u /\ InFrameCall(t) /\ pc[u] = "idle" /\ cur[u] = 0) =>
      ENABLED close_enter(u)

\* C17: close() does not wait for the frame lock: with a thread inside
\* read_frame or write_frame, blocked or not, another thread can enter close()
\* and its close() runs to its end; once a close() has returned, the call in
\* flight ends with an error: it does not stay blocked, and it returns no
\* Frame (nor a completed write) after the close.
C17_CloseUnblocks ==
  /\ []C17_Safety
  /\ [][\A t \in Threads :
          ((EndsRead(t) \/ EndsWrite(t)) /\ CloseReturned) =>
            IsError(hist'[cur[t]].res)]_vars
  /\ \A u \in Threads : (pc[u] \in ClosePcs) ~> (pc[u] = "idle")
  /\ \A t \in Threads :
       (InFrameCall(t) /\ CloseReturned) ~> (pc[t] = "idle" /\ IsError(result(t)))

\* a thread is inside read_frame, holding the frame lock and blocked with no
\* byte to receive, and the other thread's close() has returned
C17_Witness ==
  \E t \in Threads :
    /\ pc[t] \in ReadPcs /\ frame_lock = t /\ avail = 0
    /\ CloseReturned

\* the close() call i has made its self.sock.shutdown call
ShutdownDone(i) ==
  /\ hist[i].sock0 = "socket"
  /\ pc[hist[i].thr] \in {"cl_close", "cl_none", "cl_flag"} \/ hist[i].res = RetNone

\* C18: when the two threads both call close() and the socket layer reports
\* no error of its own, neither call raises, the socket is shut down by one
\* of them only, and with both calls over the socket is released and closed
\* and connected is false.
C18_ConcurrentCloseSafe ==
  (errs = 0 /\ Cardinality(Closes) = Cardinality(Threads)) =>
    /\ \A i \in Closes : ~IsError(hist[i].res)
    /\ Cardinality({i \in Closes : ShutdownDone(i)}) <= 1
    /\ (\A t \in Threads : pc[t] = "idle") =>
         (sock = "None" /\ sockState = "closed" /\ nopen = 0 /\ ~connected)

\* the offsets of stream at which a frame starts, from offset from on: a
\* frame is its 7-byte header, payload_size bytes and a terminator
RECURSIVE FrameBoundaries(_, _)
FrameBoundaries(stream, from) ==
  IF from + HeaderLen > Len(stream) THEN {from}
  ELSE LET size == payload_size(SubSeq(stream, from + 1, from + HeaderLen))
       IN  IF size > Len(stream) \/ from + HeaderLen + size + 1 > Len(stream)
           THEN {from}
           ELSE {from} \cup FrameBoundaries(stream, from + HeaderLen + size + 1)

\* C19: whenever connected is true and no read_frame is in progress, the
\* bytes taken from the socket so far end at a frame boundary: a read_frame
\* that failed after taking part of a frame has left connected false.
C19_FrameBoundary ==
  (connected /\ Readers = {}) => rpos \in FrameBoundaries(inStream, 0)

\* the error of a failing self.sock.shutdown(SHUT_RDWR)
ShutdownError == Exc("OSError", "ENOTCONN")

\* C20: once a close() is over, whether it returned or raised because the
\* socket's shutdown reported an error, connected is false and the socket is
\* closed and released (self.sock is None).
C20_CloseAlwaysReleases ==
  \A i \in Closes :
    hist[i].res \in {RetNone, ShutdownError} =>
      (~connected /\ sock = "None" /\ sockState = "closed")

====
